---- MODULE Spec2Model ----
\* Power-state reconciliation (PowerOperation) and per-endpoint serialisation
\* (redfishMutexKV around the ethernet-interface Create/Update handlers) of
\* terraform-provider-redfish.
EXTENDS Integers, Sequences, FiniteSets, TLC

\* ---------------------------------------------------------------- bounds
MaxWaitTimeBound == 10     \* maximumWaitTime ranges over 0..MaxWaitTimeBound
MaxCheckInterval == 3      \* checkInterval ranges over 0..MaxCheckInterval
MaxPolls == 12             \* cap on loop iterations (checkInterval = 0 never advances totalTime)
MaxSystems == 2            \* service.Systems() reports at most this many systems
NumProcs == 2              \* concurrent CRUD handler invocations
MaxProbeTimeout == 3       \* checkServerStatus: timeout ranges over -1..MaxProbeTimeout
MaxProbeInterval == 2      \* checkServerStatus: interval ranges over 0..MaxProbeInterval
MaxProbes == 4             \* cap on net.Dial calls (interval = 0 with instant dials never ends)
MaxDialTime == 1           \* a net.Dial call takes 0..MaxDialTime seconds

\* ---------------------------------------------------------------- values
\* redfish.PowerState values a ComputerSystem can report ("" = field absent)
PowerStates == {"On", "Off", "PoweringOn", "PoweringOff", ""}

\* redfish.ResetType values; "Pause" stands for a type no branch matches
ResetTypes == {"On", "ForceOn", "ForceOff", "GracefulShutdown", "ForceRestart",
               "GracefulRestart", "PowerCycle", "Nmi", "PushPowerButton", "Pause"}

\* the two PowerOperation functions of the repository:
\*   "PowerOperation" = func PowerOperation of package redfish,
\*   "powerOperator"  = method powerOperator.PowerOperation of package provider
Impls == {"PowerOperation", "powerOperator"}

NilErr == "nil"            \* a nil error / empty diagnostics
NilSystem == "<nil>"       \* a nil *redfish.ComputerSystem
None == "none"             \* not assigned yet

\* what service.Systems() can answer: a transport error, or a list of systems
\* (each system is represented by the PowerState it reports)
RECURSIVE SeqsUpTo(_, _)
SeqsUpTo(S, n) ==
    IF n = 0 THEN {<<>>}
    ELSE LET shorter == SeqsUpTo(S, n - 1)
         IN  shorter \cup {Append(q, x) : q \in {r \in shorter : Len(r) = n - 1}, x \in S}

SystemsResponses ==
    {[err |-> "systems request failed", systems |-> <<>>]}
    \cup {[err |-> NilErr, systems |-> q] : q \in SeqsUpTo(PowerStates, MaxSystems)}

\* ---------------------------------------------------------------- state
VARIABLES
    impl,              \* which PowerOperation function runs
    resetTypeArg,      \* argument resetType as passed by the caller
    maximumWaitTime,   \* argument maximumWaitTime
    checkInterval,     \* argument checkInterval
    pc,                \* position inside PowerOperation
    resetType,         \* the local resetType (the restart branch may rewrite it)
    systemPowerState,  \* system.PowerState of the system fetched before the loop
    targetPowerState,  \* local targetPowerState
    totalTime,         \* local totalTime
    resets,            \* number of system.Reset calls made
    issuedAction,      \* the ResetType handed to system.Reset
    resetErr,          \* the error system.Reset returned
    sleeps,            \* number of time.Sleep calls made
    polls,             \* number of getSystemResource calls made inside the loop
    lastPolled,        \* PowerState seen by the latest successful poll
    matchAt,           \* index of the first poll that saw targetPowerState (0 = none)
    pollFailed,        \* a getSystemResource call inside the loop failed
    exit,              \* which return statement was taken
    retState,          \* returned redfish.PowerState
    retErr,            \* returned error / diagnostics
    lookupFailed,      \* the first service.Systems() failed or reported no system
    cancelled,         \* the surrounding context (ctx) has been cancelled
    opc,               \* per handler invocation: position inside Create/Update
    opKind,            \* per handler invocation: "Create" or "Update"
    opEndpoint,        \* per handler invocation: d's redfish_server[0].endpoint
    providerEndpoint,  \* the provider block's endpoint ("" = not set)
    opConnected,       \* per handler invocation: the endpoint NewConfig connected to
    mutexStore,        \* redfishMutexKV.store: key -> the key's mutex (a handle id)
    handleKeys,        \* handleKeys[h] = the key mutex h was created for
    lockedHandles,     \* the mutexes that are locked
    opHandle,          \* per handler invocation: the mutex its Lock call works on (0 = none)
    accesses,          \* per handler invocation: accesses to the remote ethernet interface
    holds,             \* per handler invocation: the keys whose mutex it holds
    acquired,          \* per handler invocation: number of Lock calls that returned
    released,          \* per handler invocation: number of Unlock calls made
    opResult,          \* per handler invocation: how the handler ended
    csPc,              \* position inside checkServerStatus
    csInterval,        \* argument interval
    csTimeout,         \* argument timeout
    csElapsed,         \* time.Since(start), in seconds
    csErr,             \* the local err
    csProbes,          \* number of net.Dial calls made
    csProbeOk,         \* a net.Dial call succeeded
    csLastProbeErr,    \* the error of the latest net.Dial call
    csRet              \* the returned error

powerArgs == <<impl, resetTypeArg, maximumWaitTime, checkInterval>>
powerLocals == <<resetType, systemPowerState, targetPowerState, totalTime>>
powerCalls == <<resets, issuedAction, resetErr, sleeps, polls, lastPolled, matchAt, pollFailed>>
powerRet == <<exit, retState, retErr>>
powerEnv == <<lookupFailed, cancelled>>
powerVars == <<powerArgs, pc, powerLocals, powerCalls, powerRet, powerEnv>>
lockVars == <<opc, opKind, opEndpoint, providerEndpoint, opConnected, mutexStore,
              handleKeys, lockedHandles, opHandle,
              accesses, holds, acquired, released, opResult>>
probeVars == <<csPc, csInterval, csTimeout, csElapsed, csErr, csProbes, csProbeOk,
               csLastProbeErr, csRet>>
vars == <<powerVars, lockVars, probeVars>>

\* ---------------------------------------------------------------- getSystemResource
getSystemResource_NoEmptyCheck(resp) ==
    IF resp.err # NilErr THEN [system |-> NilSystem, err |-> resp.err]
    ELSE IF Len(resp.systems) = 0
         THEN [system |-> NilSystem, err |-> NilErr]
         ELSE [system |-> resp.systems[1], err |-> NilErr]

getSystemResource(resp) ==
    IF resp.err # NilErr THEN [system |-> NilSystem, err |-> resp.err]
    ELSE IF Len(resp.systems) = 0
         THEN [system |-> NilSystem, err |-> "No computer systems found"]
         ELSE [system |-> resp.systems[1], err |-> NilErr]

\* ---------------------------------------------------------------- decision
\* The decision is a chain of if-blocks over the locals; a block that returns
\* sets returned and retState.
DecisionStart_TargetOn(rt) ==
    [resetType |-> rt, targetPowerState |-> "On", returned |-> FALSE, retState |-> None]

\* var targetPowerState redfish.PowerState: the zero value, ""
DecisionStart(rt) ==
    [resetType |-> rt, targetPowerState |-> "", returned |-> FALSE, retState |-> None]

ForceOffBlock(s, ps) ==
    IF s.returned \/ s.resetType \notin {"ForceOff", "GracefulShutdown"} THEN s
    ELSE IF ps = "Off"
         THEN [s EXCEPT !.returned = TRUE, !.retState = "Off"]
         ELSE [s EXCEPT !.targetPowerState = "Off"]

OnBlock_NoShortCircuit(s, ps) ==
    IF s.returned \/ s.resetType \notin {"On", "ForceOn"} THEN s
    ELSE [s EXCEPT !.targetPowerState = "On"]

OnBlock(s, ps) ==
    IF s.returned \/ s.resetType \notin {"On", "ForceOn"} THEN s
    ELSE IF ps = "On"
         THEN [s EXCEPT !.returned = TRUE, !.retState = "On"]
         ELSE [s EXCEPT !.targetPowerState = "On"]

\* package redfish: ForceRestart, GracefulRestart, PowerCycle; the target is
\* set to On whatever the current state
PowerOperation_RestartBlock(s, ps) ==
    IF s.returned \/ s.resetType \notin {"ForceRestart", "GracefulRestart", "PowerCycle"} THEN s
    ELSE [s EXCEPT !.resetType = IF ps = "Off" THEN "On" ELSE @,
                   !.targetPowerState = "On"]

powerOperator_RestartBlock_NoNmi(s, ps) ==
    IF s.returned \/ s.resetType \notin {"ForceRestart", "GracefulRestart", "PowerCycle"} THEN s
    ELSE IF ps = "Off"
         THEN [s EXCEPT !.resetType = "On"]
         ELSE [s EXCEPT !.targetPowerState = "On"]

\* package provider: Nmi added; the target is set in the else branch only
powerOperator_RestartBlock(s, ps) ==
    IF s.returned \/ s.resetType \notin {"ForceRestart", "GracefulRestart", "PowerCycle", "Nmi"} THEN s
    ELSE IF ps = "Off"
         THEN [s EXCEPT !.resetType = "On"]
         ELSE [s EXCEPT !.targetPowerState = "On"]

\* package provider only
powerOperator_PushPowerButtonBlock(s, ps) ==
    IF s.returned \/ s.resetType # "PushPowerButton" THEN s
    ELSE IF ps = "Off"
         THEN [s EXCEPT !.targetPowerState = "On"]
         ELSE [s EXCEPT !.targetPowerState = "Off"]

PowerOperation_Decision(rt, ps) ==
    PowerOperation_RestartBlock(OnBlock(ForceOffBlock(DecisionStart(rt), ps), ps), ps)

powerOperator_Decision(rt, ps) ==
    powerOperator_PushPowerButtonBlock(
        powerOperator_RestartBlock(OnBlock(ForceOffBlock(DecisionStart(rt), ps), ps), ps), ps)

Decision(im, rt, ps) ==
    IF im = "PowerOperation" THEN PowerOperation_Decision(rt, ps)
    ELSE powerOperator_Decision(rt, ps)

\* ---------------------------------------------------------------- PowerOperation
Return(site, st, e) ==
    /\ pc' = "done"
    /\ exit' = site
    /\ retState' = st
    /\ retErr' = e

\* system, err := getSystemResource(service); if err != nil { return "", err }
Lookup ==
    /\ pc = "start"
    /\ \E resp \in SystemsResponses :
          LET r == getSystemResource(resp) IN
          /\ lookupFailed' = (resp.err # NilErr \/ Len(resp.systems) = 0)
          /\ IF r.err # NilErr
             THEN /\ Return("lookup", "", r.err)
                  /\ UNCHANGED systemPowerState
             ELSE /\ systemPowerState' = r.system
                  /\ pc' = "decide"
                  /\ UNCHANGED powerRet
    /\ UNCHANGED <<powerArgs, resetType, targetPowerState, totalTime, powerCalls, lockVars, probeVars, cancelled>>

\* the if-blocks computing targetPowerState, with their early returns
Decide ==
    /\ pc = "decide"
    /\ LET d == Decision(impl, resetTypeArg, systemPowerState) IN
          IF d.returned
          THEN /\ Return("shortcircuit", d.retState, NilErr)
               /\ UNCHANGED <<resetType, targetPowerState>>
          ELSE /\ resetType' = d.resetType
               /\ targetPowerState' = d.targetPowerState
               /\ pc' = "reset"
               /\ UNCHANGED powerRet
    /\ UNCHANGED <<powerArgs, systemPowerState, totalTime, powerCalls, lockVars, probeVars, powerEnv>>

Reset_IgnoresError ==
    /\ pc = "reset"
    /\ resets' = resets + 1
    /\ issuedAction' = resetType
    /\ \E e \in {NilErr, "reset failed"} : resetErr' = e
    /\ totalTime' = 0
    /\ pc' = "loop"
    /\ UNCHANGED <<powerArgs, resetType, systemPowerState, targetPowerState,
                   sleeps, polls, lastPolled, matchAt, pollFailed, powerRet, lockVars, probeVars, powerEnv>>

\* if err = system.Reset(ResetType(resetType)); err != nil { return system.PowerState, err }
Reset ==
    /\ pc = "reset"
    /\ resets' = resets + 1
    /\ issuedAction' = resetType
    /\ \E e \in {NilErr, "reset failed"} :
          /\ resetErr' = e
          /\ IF e # NilErr
             THEN /\ Return("resetfail", systemPowerState, e)
                  /\ UNCHANGED totalTime
             ELSE /\ totalTime' = 0
                  /\ pc' = "loop"
                  /\ UNCHANGED powerRet
    /\ UNCHANGED <<powerArgs, resetType, systemPowerState, targetPowerState,
                   sleeps, polls, lastPolled, matchAt, pollFailed, lockVars, probeVars, powerEnv>>

LoopCheck_LessOrEqual ==
    /\ pc = "loop"
    /\ IF totalTime <= maximumWaitTime
       THEN /\ pc' = "sleep"
            /\ UNCHANGED powerRet
       ELSE Return("timeout", systemPowerState, NilErr)
    /\ UNCHANGED <<powerArgs, powerLocals, powerCalls, lockVars, probeVars, powerEnv>>

\* for totalTime < maximumWaitTime { ... }; return system.PowerState, nil
\* (system is the variable of the enclosing scope: the loop body declares its own)
LoopCheck ==
    /\ pc = "loop"
    /\ IF totalTime < maximumWaitTime
       THEN /\ pc' = "sleep"
            /\ UNCHANGED powerRet
       ELSE Return("timeout", systemPowerState, NilErr)
    /\ UNCHANGED <<powerArgs, powerLocals, powerCalls, lockVars, probeVars, powerEnv>>

Sleep_NoSleep ==
    /\ pc = "sleep"
    /\ polls < MaxPolls
    /\ totalTime' = totalTime + checkInterval
    /\ pc' = "fetch"
    /\ UNCHANGED <<powerArgs, resetType, systemPowerState, targetPowerState, resets,
                   issuedAction, resetErr, sleeps, polls, lastPolled, matchAt, pollFailed,
                   powerRet, lockVars, probeVars, powerEnv>>

Sleep_CountsTwice ==
    /\ pc = "sleep"
    /\ polls < MaxPolls
    /\ sleeps' = sleeps + 1
    /\ totalTime' = totalTime + 2 * checkInterval
    /\ pc' = "fetch"
    /\ UNCHANGED <<powerArgs, resetType, systemPowerState, targetPowerState, resets,
                   issuedAction, resetErr, polls, lastPolled, matchAt, pollFailed,
                   powerRet, lockVars, probeVars, powerEnv>>

\* time.Sleep(checkInterval * time.Second); totalTime += checkInterval
Sleep ==
    /\ pc = "sleep"
    /\ polls < MaxPolls
    /\ sleeps' = sleeps + 1
    /\ totalTime' = totalTime + checkInterval
    /\ pc' = "fetch"
    /\ UNCHANGED <<powerArgs, resetType, systemPowerState, targetPowerState, resets,
                   issuedAction, resetErr, polls, lastPolled, matchAt, pollFailed,
                   powerRet, lockVars, probeVars, powerEnv>>

\* if system.PowerState == targetPowerState { return system.PowerState, nil }
\* (lastPolled and matchAt record what the poll saw)
Compare_KeepsPolling(sys) ==
    /\ lastPolled' = sys
    /\ pollFailed' = pollFailed
    /\ matchAt' = IF sys = targetPowerState /\ matchAt = 0 THEN polls + 1 ELSE matchAt
    /\ pc' = "loop"
    /\ UNCHANGED powerRet

Compare_Retries(sys) ==
    /\ lastPolled' = sys
    /\ pollFailed' = pollFailed
    /\ matchAt' = IF sys = targetPowerState /\ matchAt = 0 THEN polls + 1 ELSE matchAt
    /\ IF sys = targetPowerState
       THEN Return("converged", sys, NilErr)
       ELSE /\ pc' = "reset"
            /\ UNCHANGED powerRet

Compare(sys) ==
    /\ lastPolled' = sys
    /\ pollFailed' = pollFailed
    /\ matchAt' = IF sys = targetPowerState /\ matchAt = 0 THEN polls + 1 ELSE matchAt
    /\ IF sys = targetPowerState
       THEN Return("converged", sys, NilErr)
       ELSE /\ pc' = "loop"
            /\ UNCHANGED powerRet

\* package redfish: system, err := getSystemResource(service)
\*                  if err != nil { return system.PowerState, ... }
\* system is nil whenever err is not: evaluating system.PowerState panics
PowerOperation_Poll ==
    /\ pc = "fetch"
    /\ impl = "PowerOperation"
    /\ polls' = polls + 1
    /\ \E resp \in SystemsResponses :
          LET r == getSystemResource(resp) IN
          IF r.err # NilErr
          THEN /\ pollFailed' = TRUE
               /\ UNCHANGED <<lastPolled, matchAt>>
               /\ IF r.system = NilSystem
                  THEN /\ pc' = "panic"
                       /\ exit' = "panic"
                       /\ UNCHANGED <<retState, retErr>>
                  ELSE Return("pollfail", r.system, r.err)
          ELSE Compare(r.system)
    /\ UNCHANGED <<powerArgs, powerLocals, resets, issuedAction, resetErr, sleeps, lockVars, probeVars, powerEnv>>

powerOperator_Poll_ReturnsFetched ==
    /\ pc = "fetch"
    /\ impl = "powerOperator"
    /\ polls' = polls + 1
    /\ \E resp \in SystemsResponses :
          LET r == getSystemResource(resp) IN
          IF r.err # NilErr
          THEN /\ pollFailed' = TRUE
               /\ UNCHANGED <<lastPolled, matchAt>>
               /\ Return("pollfail", systemPowerState, r.err)
          ELSE Compare(r.system)
    /\ UNCHANGED <<powerArgs, powerLocals, resets, issuedAction, resetErr, sleeps, lockVars, probeVars, powerEnv>>

\* package provider: if err != nil { return targetPowerState, err }
powerOperator_Poll ==
    /\ pc = "fetch"
    /\ impl = "powerOperator"
    /\ polls' = polls + 1
    /\ \E resp \in SystemsResponses :
          LET r == getSystemResource(resp) IN
          IF r.err # NilErr
          THEN /\ pollFailed' = TRUE
               /\ UNCHANGED <<lastPolled, matchAt>>
               /\ Return("pollfail", targetPowerState, r.err)
          ELSE Compare(r.system)
    /\ UNCHANGED <<powerArgs, powerLocals, resets, issuedAction, resetErr, sleeps, lockVars, probeVars, powerEnv>>

\* the engine cancels ctx while PowerOperation runs; neither function reads
\* ctx.Done() or ctx.Err(), ctx is only handed to tflog
Cancel ==
    /\ pc \notin {"done", "panic"}
    /\ ~cancelled
    /\ cancelled' = TRUE
    /\ UNCHANGED <<powerArgs, pc, powerLocals, powerCalls, powerRet, lookupFailed, lockVars, probeVars>>

\* ---------------------------------------------------------------- specification
LockIdle ==
    /\ opc = [p \in 1..NumProcs |-> "idle"]
    /\ opKind = [p \in 1..NumProcs |-> None]
    /\ opEndpoint = [p \in 1..NumProcs |-> None]
    /\ opConnected = [p \in 1..NumProcs |-> None]
    /\ mutexStore = <<>>
    /\ handleKeys = <<>>
    /\ lockedHandles = {}
    /\ opHandle = [p \in 1..NumProcs |-> 0]
    /\ accesses = [p \in 1..NumProcs |-> [locked |-> 0, unlocked |-> 0]]
    /\ holds = [p \in 1..NumProcs |-> {}]
    /\ acquired = [p \in 1..NumProcs |-> 0]
    /\ released = [p \in 1..NumProcs |-> 0]
    /\ opResult = [p \in 1..NumProcs |-> None]

ProbeIdle ==
    /\ csPc = "start"
    /\ csInterval = 0
    /\ csTimeout = 0
    /\ csElapsed = 0
    /\ csErr = None
    /\ csProbes = 0
    /\ csProbeOk = FALSE
    /\ csLastProbeErr = None
    /\ csRet = None

PowerEntry ==
    /\ pc = "start"
    /\ resetType = resetTypeArg
    /\ systemPowerState = None
    /\ targetPowerState = ""
    /\ totalTime = 0
    /\ resets = 0
    /\ issuedAction = None
    /\ resetErr = None
    /\ sleeps = 0
    /\ polls = 0
    /\ lastPolled = None
    /\ matchAt = 0
    /\ pollFailed = FALSE
    /\ exit = None
    /\ retState = None
    /\ retErr = None
    /\ lookupFailed = FALSE
    /\ cancelled = FALSE

InitPower ==
    /\ impl \in Impls
    /\ resetTypeArg \in ResetTypes
    /\ maximumWaitTime \in 0..MaxWaitTimeBound
    /\ checkInterval \in 0..MaxCheckInterval
    /\ PowerEntry
    /\ LockIdle
    /\ providerEndpoint = ""
    /\ ProbeIdle

NextPower ==
    \/ Lookup
    \/ Decide
    \/ Reset
    \/ LoopCheck
    \/ Sleep
    \/ PowerOperation_Poll
    \/ powerOperator_Poll

SpecPower == InitPower /\ [][NextPower]_vars

\* PowerOperation running under a context the engine may cancel
NextPowerCtx ==
    \/ NextPower
    \/ Cancel

SpecPowerCtx == InitPower /\ [][NextPowerCtx]_vars

\* a loop iteration past the MaxPolls-th: sleep, add checkInterval, a poll
\* that succeeds and reads a state other than the target; the counters
\* sleeps and polls stay at MaxPolls
UncountedIteration ==
    /\ pc = "sleep"
    /\ polls = MaxPolls
    /\ totalTime' = totalTime + checkInterval
    /\ \E sys \in PowerStates \ {targetPowerState} : lastPolled' = sys
    /\ pc' = "loop"
    /\ UNCHANGED <<powerArgs, resetType, systemPowerState, targetPowerState, resets,
                   issuedAction, resetErr, sleeps, polls, matchAt, pollFailed,
                   powerRet, lockVars, probeVars, powerEnv>>

NextPowerFair ==
    \/ NextPower
    \/ UncountedIteration

\* PowerOperation runs on the caller's goroutine: whenever a next statement
\* exists it is eventually executed
SpecPowerFair == InitPower /\ [][NextPowerFair]_vars /\ WF_vars(NextPowerFair)

\* ---------------------------------------------------------------- properties of PowerOperation
RestartTypes == {"ForceRestart", "GracefulRestart", "PowerCycle", "Nmi"}

\* C1: when the loop runs out of wait budget after at least one poll, the call
\* returns a nil error and the power state seen by the last poll.
C1_TimeoutReturnsLastPolled ==
    (exit = "timeout" /\ polls >= 1) => (retErr = NilErr /\ retState = lastPolled)

\* C2: a restart-type request on a system that is Off issues On, targets On,
\* and returns On with no error at the first poll that sees On.
C2_TieBreak ==
    (resetTypeArg \in RestartTypes /\ systemPowerState = "Off" /\ resets >= 1)
        => /\ issuedAction = "On"
           /\ targetPowerState = "On"
           /\ (lastPolled = "On" => exit = "converged" /\ retState = "On" /\ retErr = NilErr)

ShortCircuitCase ==
    \/ resetTypeArg \in {"On", "ForceOn"} /\ systemPowerState = "On"
    \/ resetTypeArg \in {"ForceOff", "GracefulShutdown"} /\ systemPowerState = "Off"

\* C3: On/ForceOn on a system that is On, and ForceOff/GracefulShutdown on a
\* system that is Off, return that state with no error, without any reset,
\* sleep or poll.
C3_IdempotentShortCircuit ==
    ShortCircuitCase
        => /\ resets = 0 /\ polls = 0 /\ sleeps = 0
           /\ pc \in {"decide", "done"}
           /\ (pc = "done" => retState = systemPowerState /\ retErr = NilErr)

C3_Witness ==
    /\ pc = "done"
    /\ resetTypeArg = "ForceOn"
    /\ systemPowerState = "On"
    /\ retState = "On"
    /\ resets = 0

\* C6: a failed reset call ends the invocation with a non-nil error and the
\* state read before the reset; there is no sleep, no poll and no second reset.
C6_ResetFailureFatal ==
    (resetErr \notin {None, NilErr})
        => /\ pc = "done"
           /\ retErr \notin {None, NilErr}
           /\ retState = systemPowerState
           /\ polls = 0 /\ sleeps = 0 /\ resets = 1

C6_Witness ==
    /\ pc = "done"
    /\ resetErr = "reset failed"
    /\ retErr = "reset failed"
    /\ retState = "Off"
    /\ resetTypeArg = "GracefulRestart"
    /\ issuedAction = "On"
    /\ polls = 0

\* C7: once a poll has seen the target state the invocation is over: it
\* returned the target state with no error, and the number of polls is the
\* index of that first matching poll.
C7_Convergence ==
    (matchAt # 0)
        => /\ pc = "done"
           /\ polls = matchAt
           /\ resets = 1
           /\ lastPolled = targetPowerState
           /\ retState = targetPowerState
           /\ retErr = NilErr

C7_Witness ==
    /\ maximumWaitTime = 10
    /\ checkInterval = 2
    /\ matchAt = 3
    /\ polls = 3
    /\ sleeps = 3
    /\ pc = "done"
    /\ retState = "Off"

\* C8: PushPowerButton is issued unchanged, never short-circuits, and targets
\* the opposite of the state read at invocation.
C8_Toggle ==
    (resetTypeArg = "PushPowerButton" /\ systemPowerState \in {"On", "Off"}
        /\ pc \notin {"start", "decide"})
        => /\ exit # "shortcircuit"
           /\ (resets >= 1 => issuedAction = "PushPowerButton")
           /\ targetPowerState = (IF systemPowerState = "On" THEN "Off" ELSE "On")

\* C9: a return, after a reset, of a nil error and the target state means a
\* poll of this invocation saw the target state.
C9_ReturnedTargetWasObserved ==
    (pc = "done" /\ resets >= 1 /\ retErr = NilErr /\ retState = targetPowerState)
        => matchAt # 0

\* C10: a failed lookup inside the loop makes the invocation return to its
\* caller with a non-nil error at that iteration.
C10_MidPollLookupFatal ==
    pollFailed => (pc = "done" /\ retErr \notin {None, NilErr})

\* C11: once ctx is cancelled, the loop test at the next iteration boundary
\* ends the invocation instead of starting another sleep and poll.
C11_CancellationStopsLoop ==
    [][(cancelled /\ pc = "loop") => pc' = "done"]_vars

\* C12: when the first lookup fails or reports no system, the invocation is
\* over with a non-nil error and an empty power state, and there has been no
\* reset, no sleep and no poll.
C12_InitialLookupFailure ==
    lookupFailed
        => /\ pc = "done"
           /\ retState = ""
           /\ retErr \notin {None, NilErr}
           /\ resets = 0 /\ issuedAction = None
           /\ polls = 0 /\ sleeps = 0

C12_Witness ==
    /\ lookupFailed
    /\ pc = "done"
    /\ retErr = "No computer systems found"
    /\ retState = ""
    /\ resets = 0

\* C13: system.Reset is called at most once per invocation, and exactly once
\* before the loop is entered.
C13_NoResetRetry ==
    /\ resets <= 1
    /\ (pc \in {"loop", "sleep", "fetch"} => resets = 1)

C13_Witness ==
    /\ pc = "done"
    /\ exit = "timeout"
    /\ polls = 3
    /\ lastPolled = "PoweringOff"
    /\ resets = 1

NonShortCircuitRow ==
    \/ resetTypeArg \in {"ForceOff", "GracefulShutdown"} /\ systemPowerState = "On"
    \/ resetTypeArg \in {"On", "ForceOn"} /\ systemPowerState = "Off"
    \/ resetTypeArg \in RestartTypes /\ systemPowerState = "On"

\* C14: in powerOperator.PowerOperation, ForceOff/GracefulShutdown on an On
\* system target Off, On/ForceOn on an Off system target On, the four restart
\* types on an On system target On, and the action issued is the requested one.
C14_DecisionTableRows ==
    (impl = "powerOperator" /\ NonShortCircuitRow /\ pc \notin {"start", "decide"})
        => /\ exit # "shortcircuit"
           /\ targetPowerState =
                 (IF resetTypeArg \in {"ForceOff", "GracefulShutdown"} THEN "Off" ELSE "On")
           /\ resetType = resetTypeArg
           /\ (pc # "reset" => resets = 1 /\ issuedAction = resetTypeArg)

C14_Witness ==
    /\ impl = "powerOperator"
    /\ resetTypeArg = "Nmi"
    /\ systemPowerState = "On"
    /\ issuedAction = "Nmi"
    /\ targetPowerState = "On"
    /\ exit = "converged"

C19_StepOrdering ==
    /\ (pc \in {"decide", "reset", "loop", "sleep", "fetch", "panic"} \/ resets >= 1)
          => (systemPowerState # None /\ ~lookupFailed)
    /\ (sleeps >= 1 \/ polls >= 1) => (resets = 1 /\ resetErr = NilErr)
    /\ (pc = "fetch" => sleeps = polls + 1)
    /\ (pc # "fetch" => sleeps = polls)

C19_Witness ==
    /\ pc = "fetch"
    /\ resets = 1
    /\ sleeps = 3
    /\ polls = 2
    /\ lastPolled = "PoweringOn"

\* ceil(m / i) for i >= 1
CeilDiv(m, i) == (m + i - 1) \div i

\* C21: with checkInterval >= 1, an invocation whose reset succeeded and that
\* ran out of wait budget (no lookup failed, no poll saw the target) made
\* exactly ceil(maximumWaitTime / checkInterval) polls and returns a nil error;
\* with maximumWaitTime = 0 the reset is followed by no sleep and no poll.
C21_PollCountOnTimeout ==
    /\ (checkInterval >= 1 /\ exit = "timeout")
          => /\ polls = CeilDiv(maximumWaitTime, checkInterval)
             /\ resets = 1 /\ resetErr = NilErr
             /\ ~pollFailed /\ matchAt = 0
             /\ retErr = NilErr
    /\ (maximumWaitTime = 0 /\ resetErr = NilErr /\ pc \notin {"loop"})
          => /\ pc = "done" /\ exit = "timeout"
             /\ resets = 1 /\ polls = 0 /\ sleeps = 0
             /\ retErr = NilErr

C21_Witness ==
    /\ exit = "timeout"
    /\ maximumWaitTime = 10
    /\ checkInterval = 3
    /\ polls = 4
    /\ resets = 1
    /\ retErr = NilErr

\* C22: every invocation ends (it returns, or panics), whatever the arguments
\* and whatever the system reports.
C22_Termination ==
    <>(pc \in {"done", "panic"})

\* C24: a restart-type request on a system that is On is over, with On and
\* no error returned, as soon as a poll reads On; no poll has to read
\* another state first.
C24_RestartConvergesOnFirstOn ==
    (resetTypeArg \in RestartTypes /\ systemPowerState = "On" /\ lastPolled = "On")
        => /\ pc = "done"
           /\ exit = "converged"
           /\ retState = "On"
           /\ retErr = NilErr

\* the reset types some if-block of the function compares resetType with
MatchedTypes(im) ==
    {"ForceOff", "GracefulShutdown", "On", "ForceOn", "ForceRestart", "GracefulRestart", "PowerCycle"}
    \cup (IF im = "powerOperator" THEN {"Nmi", "PushPowerButton"} ELSE {})

Procs == 1..NumProcs
Endpoints == {"https://bmc-a", "https://bmc-b"}
CriticalSection == {"fetch", "modify", "read"}

getRedfishServerEndpoint_SameForAll(d) == ""

\* getRedfishServerEndpoint(d) with d represented by its redfish_server[0] block
getRedfishServerEndpoint(d) == d.endpoint

ResourceData(p) == [endpoint |-> opEndpoint[p]]

\* the provider-level *schema.ResourceData, represented by its endpoint
ProviderData == [endpoint |-> providerEndpoint]

\* NewConfig(provider, resource), reduced to the clientConfig.Endpoint it
\* connects to: the resource-level endpoint, or the provider's when that is empty
NewConfig(provider, resource) ==
    IF resource.endpoint # "" THEN resource.endpoint ELSE provider.endpoint

MutexKV_get_AlwaysCreates(store, hk, key) ==
    [store |-> [k \in (DOMAIN store) \cup {key} |-> IF k = key THEN Len(hk) + 1 ELSE store[k]],
     handleKeys |-> Append(hk, key),
     mutex |-> Len(hk) + 1]

\* MutexKV.get(key), one atomic step under the registry's own lock: the key's
\* mutex, created on first use
MutexKV_get(store, hk, key) ==
    IF key \in DOMAIN store
    THEN [store |-> store, handleKeys |-> hk, mutex |-> store[key]]
    ELSE [store |-> [k \in (DOMAIN store) \cup {key} |-> IF k = key THEN Len(hk) + 1 ELSE store[k]],
          handleKeys |-> Append(hk, key),
          mutex |-> Len(hk) + 1]

\* MutexKV.Lock(key), first half: p obtains the key's mutex from get
MutexKV_LockGet(p, key) ==
    LET g == MutexKV_get(mutexStore, handleKeys, key) IN
    /\ mutexStore' = g.store
    /\ handleKeys' = g.handleKeys
    /\ opHandle' = [opHandle EXCEPT ![p] = g.mutex]
    /\ UNCHANGED <<lockedHandles, holds, acquired>>

\* MutexKV.Lock(key), second half: the mutex is free, Lock returns to p
MutexKV_LockAcquire(p, key) ==
    /\ opHandle[p] \notin lockedHandles
    /\ lockedHandles' = lockedHandles \cup {opHandle[p]}
    /\ holds' = [holds EXCEPT ![p] = @ \cup {key}]
    /\ acquired' = [acquired EXCEPT ![p] = @ + 1]
    /\ UNCHANGED <<mutexStore, handleKeys, opHandle>>

\* MutexKV.Unlock(key) called by p: get(key).Unlock()
MutexKV_Unlock(p, key) ==
    LET g == MutexKV_get(mutexStore, handleKeys, key) IN
    /\ mutexStore' = g.store
    /\ handleKeys' = g.handleKeys
    /\ lockedHandles' = lockedHandles \ {g.mutex}
    /\ holds' = [holds EXCEPT ![p] = @ \ {key}]
    /\ released' = [released EXCEPT ![p] = @ + 1]

\* ---------------------------------------------------------------- Create / Update handlers
\* the engine calls the Create or Update handler of a resource
Invoke(p) ==
    /\ opc[p] \in {"idle", "returned"}
    /\ \E k \in {"Create", "Update"}, e \in Endpoints \cup {""} :
          /\ opKind' = [opKind EXCEPT ![p] = k]
          /\ opEndpoint' = [opEndpoint EXCEPT ![p] = e]
    /\ opConnected' = [opConnected EXCEPT ![p] = None]
    /\ opc' = [opc EXCEPT ![p] = "newconfig"]
    /\ acquired' = [acquired EXCEPT ![p] = 0]
    /\ released' = [released EXCEPT ![p] = 0]
    /\ opResult' = [opResult EXCEPT ![p] = None]
    /\ opHandle' = [opHandle EXCEPT ![p] = 0]
    /\ accesses' = [accesses EXCEPT ![p] = [locked |-> 0, unlocked |-> 0]]
    /\ UNCHANGED <<providerEndpoint, mutexStore, handleKeys, lockedHandles, holds,
                   powerVars, probeVars>>

\* service, err := NewConfig(...); if err != nil { return diag.Errorf(...) }
\* (NewConfig fails on missing credentials or when gofish.Connect fails;
\* a connection to an empty endpoint always fails)
HandlerNewConfig(p) ==
    /\ opc[p] = "newconfig"
    /\ LET redfishClientEndpoint == NewConfig(ProviderData, ResourceData(p)) IN
       \E ok \in (IF redfishClientEndpoint = "" THEN {FALSE} ELSE BOOLEAN) :
          IF ok
          THEN /\ opc' = [opc EXCEPT ![p] = "lock"]
               /\ opConnected' = [opConnected EXCEPT ![p] = redfishClientEndpoint]
               /\ UNCHANGED opResult
          ELSE /\ opc' = [opc EXCEPT ![p] = "returned"]
               /\ opResult' = [opResult EXCEPT ![p] = "config error"]
               /\ UNCHANGED opConnected
    /\ UNCHANGED <<opKind, opEndpoint, providerEndpoint, mutexStore, handleKeys, lockedHandles, opHandle,
                   accesses, holds, acquired, released, powerVars, probeVars>>

HandlerLock_NoLock(p) ==
    /\ opc[p] = "lock"
    /\ opc' = [opc EXCEPT ![p] = "fetch"]
    /\ UNCHANGED <<opKind, opEndpoint, providerEndpoint, opConnected, opResult, mutexStore, handleKeys, lockedHandles,
                   opHandle, accesses, holds, acquired, released, powerVars, probeVars>>

\* redfishMutexKV.Lock(getRedfishServerEndpoint(d))
\* defer redfishMutexKV.Unlock(getRedfishServerEndpoint(d))
\* ("locking": the call is waiting for the key's mutex)
HandlerLock(p) ==
    /\ \/ /\ opc[p] = "lock"
          /\ MutexKV_LockGet(p, getRedfishServerEndpoint(ResourceData(p)))
          /\ opc' = [opc EXCEPT ![p] = "locking"]
       \/ /\ opc[p] = "locking"
          /\ MutexKV_LockAcquire(p, getRedfishServerEndpoint(ResourceData(p)))
          /\ opc' = [opc EXCEPT ![p] = "fetch"]
    /\ UNCHANGED <<opKind, opEndpoint, providerEndpoint, opConnected, opResult, accesses, released, powerVars, probeVars>>

HandlerReturn_NoDefer(p, res) ==
    /\ opc' = [opc EXCEPT ![p] = IF res = "panic" THEN "panicked" ELSE "returned"]
    /\ opResult' = [opResult EXCEPT ![p] = res]
    /\ UNCHANGED <<mutexStore, handleKeys, lockedHandles, holds, released>>

\* a return (or a panic) after the defer statement: the deferred Unlock runs,
\* with the key evaluated when the defer statement ran
HandlerReturn(p, res) ==
    /\ MutexKV_Unlock(p, getRedfishServerEndpoint(ResourceData(p)))
    /\ opc' = [opc EXCEPT ![p] = IF res = "panic" THEN "panicked" ELSE "returned"]
    /\ opResult' = [opResult EXCEPT ![p] = res]

\* p reads the remote ethernet interface; the access is counted as made with
\* or without the endpoint's lock held
AccessInterface(p) ==
    accesses' = [accesses EXCEPT ![p] =
                    IF opEndpoint[p] \in holds[p]
                    THEN [@ EXCEPT !.locked = @ + 1]
                    ELSE [@ EXCEPT !.unlocked = @ + 1]]

\* Create: ethernetInterface, err := getRedfishEthernetInterface(service, d)
\* Update: ethernetInterface, err := redfish.GetEthernetInterface(service.Client, d.Id())
HandlerFetch(p) ==
    /\ opc[p] = "fetch"
    /\ AccessInterface(p)
    /\ \E ok \in BOOLEAN :
          IF ok
          THEN /\ opc' = [opc EXCEPT ![p] = "modify"]
               /\ UNCHANGED <<opResult, mutexStore, handleKeys, lockedHandles, holds, released>>
          ELSE HandlerReturn(p, "interface error")
    /\ UNCHANGED <<opKind, opEndpoint, providerEndpoint, opConnected, opHandle, acquired, powerVars, probeVars>>

HandlerModify_UnlocksEarly(p) ==
    /\ opc[p] = "modify"
    /\ MutexKV_Unlock(p, getRedfishServerEndpoint(ResourceData(p)))
    /\ opc' = [opc EXCEPT ![p] = "read"]
    /\ UNCHANGED <<opKind, opEndpoint, providerEndpoint, opConnected, opHandle, opResult, accesses, acquired, powerVars, probeVars>>

HandlerModify_LocksAgain(p) ==
    /\ opc[p] = "modify"
    /\ opc' = [opc EXCEPT ![p] = "locking"]
    /\ UNCHANGED <<opKind, opEndpoint, providerEndpoint, opConnected, opHandle, opResult,
                   mutexStore, handleKeys, lockedHandles, holds, released,
                   accesses, acquired, powerVars, probeVars>>

\* the assignments to ethernetInterface: dereferencing the nil that
\* create...Configuration returns for an unusable block panics
HandlerModify(p) ==
    /\ opc[p] = "modify"
    /\ \E ok \in BOOLEAN :
          IF ok
          THEN /\ opc' = [opc EXCEPT ![p] = "read"]
               /\ UNCHANGED <<opResult, mutexStore, handleKeys, lockedHandles, holds, released>>
          ELSE HandlerReturn(p, "panic")
    /\ UNCHANGED <<opKind, opEndpoint, providerEndpoint, opConnected, opHandle, accesses, acquired, powerVars, probeVars>>

\* return resourceRedfishEthernetInterfaceRead(ctx, d, m): NewConfig, then
\* redfish.GetEthernetInterface, then the read... functions
HandlerRead(p) ==
    /\ opc[p] = "read"
    /\ \E res \in {"ok", "read config error", "interface error", "read error", "panic"} :
          /\ IF res = "read config error"
             THEN UNCHANGED accesses
             ELSE AccessInterface(p)
          /\ HandlerReturn(p, res)
    /\ UNCHANGED <<opKind, opEndpoint, providerEndpoint, opConnected, opHandle, acquired, powerVars, probeVars>>

PowerIdle ==
    /\ impl = "powerOperator"
    /\ resetTypeArg = "On"
    /\ maximumWaitTime = 0
    /\ checkInterval = 0
    /\ PowerEntry

InitLock ==
    /\ PowerIdle
    /\ LockIdle
    /\ providerEndpoint = ""
    /\ ProbeIdle

\* the provider block carries an endpoint of its own
InitLockProvider ==
    /\ PowerIdle
    /\ LockIdle
    /\ providerEndpoint \in Endpoints
    /\ ProbeIdle

resourceRedfishEthernetInterfaceCreate(p) ==
    /\ opKind[p] = "Create"
    /\ \/ HandlerNewConfig(p)
       \/ HandlerLock(p)
       \/ HandlerFetch(p)
       \/ HandlerModify(p)
       \/ HandlerRead(p)

resourceRedfishEthernetInterfaceUpdate(p) ==
    /\ opKind[p] = "Update"
    /\ \/ HandlerNewConfig(p)
       \/ HandlerLock(p)
       \/ HandlerFetch(p)
       \/ HandlerModify(p)
       \/ HandlerRead(p)

NextLock ==
    \E p \in Procs :
        \/ Invoke(p)
        \/ resourceRedfishEthernetInterfaceCreate(p)
        \/ resourceRedfishEthernetInterfaceUpdate(p)

SpecLock == InitLock /\ [][NextLock]_vars

SpecLockProvider == InitLockProvider /\ [][NextLock]_vars

\* ---------------------------------------------------------------- properties of the handlers
\* C4: two handlers working on the same endpoint key are never both between
\* Lock returning and Unlock, and no key's lock has two holders.
C4_MutualExclusion ==
    /\ \A p, q \in Procs :
          (p # q /\ opc[p] \in CriticalSection /\ opc[q] \in CriticalSection)
              => opEndpoint[p] # opEndpoint[q]
    /\ \A k \in Endpoints : Cardinality({p \in Procs : k \in holds[p]}) <= 1

C4_Witness ==
    /\ opc[1] = "modify"
    /\ opc[2] = "lock"
    /\ opEndpoint[1] = opEndpoint[2]
    /\ opKind[1] = "Create"
    /\ opKind[2] = "Update"
    /\ holds[1] = {opEndpoint[1]}

\* C5: a handler that acquired the lock has released it exactly once when it
\* ends, whatever the way it ends; one that ends before Lock released nothing;
\* a handler never releases more than it acquired.
C5_ReleaseOnEveryExit ==
    \A p \in Procs :
        /\ released[p] <= acquired[p]
        /\ acquired[p] <= 1
        /\ opc[p] \in {"returned", "panicked"}
              => /\ holds[p] = {}
                 /\ released[p] = acquired[p]
                 /\ acquired[p] = (IF opResult[p] = "config error" THEN 0 ELSE 1)
        /\ opc[p] \in CriticalSection => (acquired[p] = 1 /\ released[p] = 0)

C5_Witness ==
    /\ opc[1] = "returned"
    /\ opResult[1] = "interface error"
    /\ acquired[1] = 1
    /\ released[1] = 1
    /\ opc[2] = "returned"
    /\ opResult[2] = "ok"
    /\ released[2] = 1

\* ---------------------------------------------------------------- properties of redfishMutexKV use
\* C17: a handler waiting in Lock can go on unless a handler working on the
\* same endpoint is inside its critical section; holders of other keys never
\* block it.
C17_IndependentKeys ==
    \A p \in Procs :
        (opc[p] = "locking"
            /\ \A q \in Procs \ {p} :
                  opc[q] \in CriticalSection => opEndpoint[q] # opEndpoint[p])
        => ENABLED HandlerLock(p)

C17_Witness ==
    /\ opc[1] = "modify"
    /\ opc[2] = "read"
    /\ opEndpoint[1] # opEndpoint[2]
    /\ holds[1] = {opEndpoint[1]}
    /\ holds[2] = {opEndpoint[2]}
    /\ Cardinality(lockedHandles) = 2

\* C18: each key has exactly one mutex: no two mutexes were created for one
\* key, the store maps every key seen to its mutex, every handler in Lock
\* works on the mutex of its key, and a store entry is never replaced or removed.
C18_OneHandlePerKey ==
    /\ [](/\ \A i, j \in 1..Len(handleKeys) : handleKeys[i] = handleKeys[j] => i = j
          /\ DOMAIN mutexStore = {handleKeys[i] : i \in 1..Len(handleKeys)}
          /\ \A i \in 1..Len(handleKeys) : mutexStore[handleKeys[i]] = i
          /\ \A p \in Procs :
                opHandle[p] # 0
                    => /\ opEndpoint[p] \in DOMAIN mutexStore
                       /\ mutexStore[opEndpoint[p]] = opHandle[p])
    /\ [][\A k \in DOMAIN mutexStore :
              k \in DOMAIN mutexStore' /\ mutexStore'[k] = mutexStore[k]]_vars

C18_Witness ==
    /\ opc[1] = "locking"
    /\ opc[2] = "locking"
    /\ opEndpoint[1] = opEndpoint[2]
    /\ Len(handleKeys) = 1
    /\ opHandle[1] = 1
    /\ opHandle[2] = 1
    /\ lockedHandles = {}

\* C20: every access of a Create or Update handler to the remote ethernet
\* interface is made while the handler holds its endpoint's lock, and the
\* lock is held from the first access to the last.
C20_LockCoversAccesses ==
    \A p \in Procs :
        /\ accesses[p].unlocked = 0
        /\ (accesses[p].locked > 0 /\ opc[p] \in CriticalSection)
              => opEndpoint[p] \in holds[p]
        /\ (accesses[p].locked > 0) => acquired[p] = 1

C20_Witness ==
    /\ opc[1] = "returned"
    /\ opKind[1] = "Update"
    /\ opResult[1] = "ok"
    /\ accesses[1] = [locked |-> 2, unlocked |-> 0]
    /\ holds[1] = {}

\* the next statement of a handler that is past Lock
CriticalStep(p) == HandlerFetch(p) \/ HandlerModify(p) \/ HandlerRead(p)

\* C26: a handler holds at most one lock and holds none while it calls Lock;
\* a handler whose Lock call cannot return waits for a handler that is inside
\* its critical section and can take its next step, so the handlers are never
\* all blocked in Lock.
C26_NoDeadlock ==
    /\ \A p \in Procs :
          /\ Cardinality(holds[p]) <= 1
          /\ (opc[p] \in {"lock", "locking"} => holds[p] = {})
          /\ (opc[p] = "locking" /\ ~ENABLED HandlerLock(p))
                => \E q \in Procs \ {p} :
                      /\ opc[q] \in CriticalSection
                      /\ opHandle[q] = opHandle[p]
                      /\ ENABLED CriticalStep(q)
    /\ ~(\A p \in Procs : opc[p] = "locking" /\ ~ENABLED HandlerLock(p))

C26_Witness ==
    /\ opc[1] = "locking"
    /\ opc[2] = "fetch"
    /\ opEndpoint[1] = opEndpoint[2]
    /\ opHandle[1] = opHandle[2]
    /\ opHandle[2] \in lockedHandles
    /\ holds[1] = {}
    /\ holds[2] = {opEndpoint[2]}

\* C23: two handlers past NewConfig that are connected to the same endpoint
\* lock the same key, and so are never inside their critical sections together.
C23_LockKeyMatchesEndpoint ==
    \A p, q \in Procs :
        (p # q
            /\ opc[p] \in {"lock", "locking"} \cup CriticalSection
            /\ opc[q] \in {"lock", "locking"} \cup CriticalSection
            /\ opConnected[p] = opConnected[q])
        => /\ getRedfishServerEndpoint(ResourceData(p)) = getRedfishServerEndpoint(ResourceData(q))
           /\ ~(opc[p] \in CriticalSection /\ opc[q] \in CriticalSection)

\* ---------------------------------------------------------------- checkServerStatus
\* addr, err := url.Parse(endpoint); if err != nil { return err }
ProbeParse ==
    /\ csPc = "start"
    /\ \E ok \in BOOLEAN :
          IF ok
          THEN /\ csErr' = NilErr
               /\ csPc' = "grace"
               /\ UNCHANGED csRet
          ELSE /\ csErr' = "parse error"
               /\ csRet' = "parse error"
               /\ csPc' = "done"
    /\ UNCHANGED <<csInterval, csTimeout, csElapsed, csProbes, csProbeOk, csLastProbeErr,
                   powerVars, lockVars>>

\* time.Sleep(30 * time.Second); start := time.Now()
ProbeGrace ==
    /\ csPc = "grace"
    /\ csElapsed' = 0
    /\ csPc' = "looptest"
    /\ UNCHANGED <<csInterval, csTimeout, csErr, csProbes, csProbeOk, csLastProbeErr, csRet,
                   powerVars, lockVars>>

\* for ...; time.Since(start) < timeout seconds; { ... }; return err
ProbeLoopTest ==
    /\ csPc = "looptest"
    /\ IF csElapsed < csTimeout
       THEN /\ csPc' = "sleep"
            /\ UNCHANGED csRet
       ELSE /\ csRet' = csErr
            /\ csPc' = "done"
    /\ UNCHANGED <<csInterval, csTimeout, csElapsed, csErr, csProbes, csProbeOk,
                   csLastProbeErr, powerVars, lockVars>>

\* time.Sleep(interval seconds)
ProbeSleep ==
    /\ csPc = "sleep"
    /\ csProbes < MaxProbes
    /\ csElapsed' = csElapsed + csInterval
    /\ csPc' = "dial"
    /\ UNCHANGED <<csInterval, csTimeout, csErr, csProbes, csProbeOk, csLastProbeErr, csRet,
                   powerVars, lockVars>>

\* _, err = net.Dial(...); if err == nil { return nil }
ProbeDial ==
    /\ csPc = "dial"
    /\ csProbes' = csProbes + 1
    /\ \E e \in {NilErr, "connection refused", "i/o timeout"}, t \in 0..MaxDialTime :
          /\ csErr' = e
          /\ csLastProbeErr' = e
          /\ csElapsed' = csElapsed + t
          /\ IF e = NilErr
             THEN /\ csProbeOk' = TRUE
                  /\ csRet' = NilErr
                  /\ csPc' = "done"
             ELSE /\ csPc' = "looptest"
                  /\ UNCHANGED <<csProbeOk, csRet>>
    /\ UNCHANGED <<csInterval, csTimeout, powerVars, lockVars>>

InitProbe ==
    /\ PowerIdle
    /\ LockIdle
    /\ providerEndpoint = ""
    /\ csPc = "start"
    /\ csInterval \in 0..MaxProbeInterval
    /\ csTimeout \in (-1)..MaxProbeTimeout
    /\ csElapsed = 0
    /\ csErr = None
    /\ csProbes = 0
    /\ csProbeOk = FALSE
    /\ csLastProbeErr = None
    /\ csRet = None

NextProbe ==
    \/ ProbeParse
    \/ ProbeGrace
    \/ ProbeLoopTest
    \/ ProbeSleep
    \/ ProbeDial

SpecProbe == InitProbe /\ [][NextProbe]_vars

\* C16: checkServerStatus returns nil only if a net.Dial call succeeded, and
\* when the timeout elapses without a successful call it returns the non-nil
\* error of the last net.Dial call.
C16_ProbeOutcome ==
    csPc = "done"
        => /\ (csRet = NilErr => csProbeOk)
           /\ (~csProbeOk /\ csRet # "parse error")
                 => (csRet \notin {None, NilErr} /\ csRet = csLastProbeErr)

====
